---- MODULE Spec2Model ----
(***************************************************************************)
(* Model of .github/scripts/generate_changelog.py: the changelog pipeline  *)
(* get_last_tag -> get_commits_since -> filter_commits ->                  *)
(* group_commits_by_type -> generate_changelog -> print.                   *)
(*                                                                         *)
(* Text is modelled as sequences of one-character strings.  NL is the     *)
(* newline character and BAD stands for a byte that the preferred encoding *)
(* cannot decode.  The display titles and the fixed placeholder texts,     *)
(* which are CJK/emoji literals in the source, are each carried as one     *)
(* opaque glyph.                                                           *)
(***************************************************************************)
EXTENDS Integers, Sequences, FiniteSets, TLC

VARIABLES
    repo,            \* what the two git commands would write on stdout (bytes)
    pc,              \* position of main
    exc,             \* exception in flight inside run_command, or None
    queries,         \* subprocess.run calls made so far, in order
    last_tag,        \* main: last_tag
    commits,         \* main: commits
    parsed_commits,  \* main: parsed_commits
    grouped,         \* main: grouped (a defaultdict(list))
    changelog,       \* main: changelog
    out,             \* characters written to sys.stdout
    err,             \* characters written to sys.stderr
    commit_msg,      \* argument of a stand-alone parse_commit call
    parse_result     \* what that call returned

vars == <<repo, pc, exc, queries, last_tag, commits, parsed_commits, grouped,
          changelog, out, err, commit_msg, parse_result>>

-----------------------------------------------------------------------------
(* Bounds *)

MaxLen == 7        \* longest commit_msg handed to the stand-alone parse_commit
MaxCommits == 3    \* most lines in the git log output

-----------------------------------------------------------------------------
(* Characters and strings *)

NL == "\n"
BAD == "<bad-byte>"
None == <<"<None>">>

Uppers == <<"A","B","C","D","E","F","G","H","I","J","K","L","M",
            "N","O","P","Q","R","S","T","U","V","W","X","Y","Z">>
Lowers == <<"a","b","c","d","e","f","g","h","i","j","k","l","m",
            "n","o","p","q","r","s","t","u","v","w","x","y","z">>
Digits == {"0","1","2","3","4","5","6","7","8","9"}

Range(s) == {s[i] : i \in 1..Len(s)}

UpperSet == Range(Uppers)
WordChars == UpperSet \cup Range(Lowers) \cup Digits \cup {"_"}

\* \w of the re module
IsWord(c) == c \in WordChars

\* str.isspace for the characters of the model
IsSpace(c) == c \in {" ", NL}

LowerChar(c) ==
    IF c \in UpperSet
    THEN Lowers[CHOOSE i \in 1..Len(Uppers) : Uppers[i] = c]
    ELSE c

\* str.lower
Lower(s) == [i \in 1..Len(s) |-> LowerChar(s[i])]

\* str.startswith
StartsWith(s, p) == Len(s) >= Len(p) /\ SubSeq(s, 1, Len(p)) = p

\* Python truthiness of an Optional[str]
Truthy(x) == x # None /\ x # <<>>

\* str.strip
RECURSIVE LStrip(_)
LStrip(s) == IF s # <<>> /\ IsSpace(Head(s)) THEN LStrip(Tail(s)) ELSE s

RECURSIVE RStrip(_)
RStrip(s) ==
    IF s # <<>> /\ IsSpace(s[Len(s)]) THEN RStrip(SubSeq(s, 1, Len(s) - 1)) ELSE s

Strip(s) == RStrip(LStrip(s))

\* str.split(sep) for a one-character sep: always at least one piece
RECURSIVE Split(_, _)
Split(s, sep) ==
    IF \A i \in 1..Len(s) : s[i] # sep
    THEN <<s>>
    ELSE LET k == CHOOSE i \in 1..Len(s) :
                      s[i] = sep /\ \A j \in 1..(i - 1) : s[j] # sep
         IN  <<SubSeq(s, 1, k - 1)>> \o Split(SubSeq(s, k + 1, Len(s)), sep)

\* sep.join(parts)
RECURSIVE Join(_, _)
Join(parts, sep) ==
    IF parts = <<>> THEN <<>>
    ELSE IF Len(parts) = 1 THEN parts[1]
    ELSE parts[1] \o sep \o Join(Tail(parts), sep)

\* a decoder that never raises
Decodable_Always(bytes) == TRUE

\* bytes.decode(encoding) raises UnicodeDecodeError on an undecodable byte
Decodable(bytes) == \A i \in 1..Len(bytes) : bytes[i] # BAD

\* bytes.decode('utf-8', errors='ignore') drops the undecodable bytes
DecodeIgnore(bytes) == SelectSeq(bytes, LAMBDA c : c # BAD)

-----------------------------------------------------------------------------
(* COMMIT_TYPES *)

COMMIT_TYPES ==
    [feat     |-> [title |-> <<"{title:feat}">>,     order |-> 1],
     fix      |-> [title |-> <<"{title:fix}">>,      order |-> 2],
     perf     |-> [title |-> <<"{title:perf}">>,     order |-> 3],
     refactor |-> [title |-> <<"{title:refactor}">>, order |-> 4],
     docs     |-> [title |-> <<"{title:docs}">>,     order |-> 5],
     style    |-> [title |-> <<"{title:style}">>,    order |-> 6],
     test     |-> [title |-> <<"{title:test}">>,     order |-> 7],
     build    |-> [title |-> <<"{title:build}">>,    order |-> 8],
     ci       |-> [title |-> <<"{title:ci}">>,       order |-> 9],
     chore    |-> [title |-> <<"{title:chore}">>,    order |-> 10]]

\* The keys of COMMIT_TYPES spelled as character sequences, as parse_commit
\* produces them.
TypeName ==
    [feat     |-> <<"f","e","a","t">>,
     fix      |-> <<"f","i","x">>,
     perf     |-> <<"p","e","r","f">>,
     refactor |-> <<"r","e","f","a","c","t","o","r">>,
     docs     |-> <<"d","o","c","s">>,
     style    |-> <<"s","t","y","l","e">>,
     test     |-> <<"t","e","s","t">>,
     build    |-> <<"b","u","i","l","d">>,
     ci       |-> <<"c","i">>,
     chore    |-> <<"c","h","o","r","e">>]

TypeKeys == DOMAIN COMMIT_TYPES

\* commit_type in COMMIT_TYPES
InCommitTypes(t) == \E k \in TypeKeys : TypeName[k] = t

\* the key of COMMIT_TYPES equal to t
KeyOf(t) == CHOOSE k \in TypeKeys : TypeName[k] = t

-----------------------------------------------------------------------------
(* parse_commit: re.match(r'^(\w+)(?:\(([^)]+)\))?: (.+)$', commit_msg)    *)

\* PatternFits with (.*) for the description
PatternFits_StarDescription(s, n, m, e) ==
    LET p == n + 1
        q == IF m = 0 THEN p ELSE p + m + 2
    IN  /\ n >= 1 /\ n <= Len(s)
        /\ \A i \in 1..n : IsWord(s[i])
        /\ \/ m = 0
           \/ /\ p + m + 1 <= Len(s)
              /\ s[p] = "("
              /\ \A i \in (p + 1)..(p + m) : s[i] # ")"
              /\ s[p + m + 1] = ")"
        /\ q + 1 <= Len(s)
        /\ s[q] = ":"
        /\ s[q + 1] = " "
        /\ e >= q + 1 /\ e <= Len(s)
        /\ \A i \in (q + 2)..e : s[i] # NL
        /\ \/ e = Len(s)
           \/ e = Len(s) - 1 /\ s[Len(s)] = NL

\* One way of laying the pattern over s: group 1 is s[1..n]; group 2 has
\* m characters (m = 0: the optional group takes no part); the match ends
\* after s[e], where $ holds: at the end of s or before a final newline.
PatternFits(s, n, m, e) ==
    LET p == n + 1
        q == IF m = 0 THEN p ELSE p + m + 2
    IN  /\ n >= 1 /\ n <= Len(s)
        /\ \A i \in 1..n : IsWord(s[i])
        /\ \/ m = 0
           \/ /\ p + m + 1 <= Len(s)
              /\ s[p] = "("
              /\ \A i \in (p + 1)..(p + m) : s[i] # ")"
              /\ s[p + m + 1] = ")"
        /\ q + 1 <= Len(s)
        /\ s[q] = ":"
        /\ s[q + 1] = " "
        /\ e >= q + 2 /\ e <= Len(s)
        /\ \A i \in (q + 2)..e : s[i] # NL
        /\ \/ e = Len(s)
           \/ e = Len(s) - 1 /\ s[Len(s)] = NL

\* The order in which the backtracking matcher tries the layouts: the greedy
\* \w+ longest first, then the optional group present before absent and its
\* greedy [^)]+ longest first, then the greedy .+ longest first.
TriedBefore(a, b) ==
    \/ a[1] > b[1]
    \/ a[1] = b[1] /\ a[2] > b[2]
    \/ a[1] = b[1] /\ a[2] = b[2] /\ a[3] > b[3]

\* what ^(\w+) can take: the word-character prefixes of s
WordPrefixes(s) == {n \in 1..Len(s) : \A i \in 1..n : IsWord(s[i])}

Layouts(s) ==
    {c \in WordPrefixes(s) \X (0..Len(s)) \X ((Len(s) - 1)..Len(s)) :
        PatternFits(s, c[1], c[2], c[3])}

parse_commit(msg) ==
    LET fits == Layouts(msg)
    IN  IF fits # {}
        THEN LET c == CHOOSE a \in fits : \A b \in fits : a = b \/ TriedBefore(a, b)
                 n == c[1]
                 m == c[2]
                 q == IF m = 0 THEN n + 1 ELSE n + m + 3
                 group2 == IF m = 0 THEN None ELSE SubSeq(msg, n + 2, n + 1 + m)
                 commit_type == Lower(SubSeq(msg, 1, n))
                 scope == IF Truthy(group2) THEN group2 ELSE <<>>
                 description == SubSeq(msg, q + 2, c[3])
             IN  <<commit_type, scope, description>>
        ELSE <<None, None, msg>>

-----------------------------------------------------------------------------
(* filter_commits *)

MergePrefix == <<"M","e","r","g","e"," ">>

\* filter_commits without the membership test on COMMIT_TYPES
RECURSIVE filter_commits_AnyType(_)
filter_commits_AnyType(cs) ==
    IF cs = <<>> THEN <<>>
    ELSE LET commit == Head(cs)
             rest == filter_commits_AnyType(Tail(cs))
         IN  IF StartsWith(commit, MergePrefix)
             THEN rest
             ELSE LET parsed == parse_commit(commit)
                  IN  IF Truthy(parsed[1]) THEN <<parsed>> \o rest ELSE rest

RECURSIVE filter_commits(_)
filter_commits(cs) ==
    IF cs = <<>> THEN <<>>
    ELSE LET commit == Head(cs)
             rest == filter_commits(Tail(cs))
         IN  IF StartsWith(commit, MergePrefix)
             THEN rest
             ELSE LET parsed == parse_commit(commit)
                  IN  IF Truthy(parsed[1]) /\ InCommitTypes(parsed[1])
                      THEN <<parsed>> \o rest
                      ELSE rest

-----------------------------------------------------------------------------
(* group_commits_by_type: a defaultdict(list), kept as the keys in insertion *)
(* order and the list of each key                                            *)

EmptyDict == [keys |-> <<>>, items |-> <<>>]

HasKey(d, k) == \E i \in 1..Len(d.keys) : d.keys[i] = k

\* defaultdict.__getitem__: a missing key is inserted with an empty list
Touch(d, k) ==
    IF HasKey(d, k) THEN d
    ELSE [keys |-> Append(d.keys, k), items |-> d.items @@ (k :> <<>>)]

\* grouped[commit_type] = [(scope, description)]
AppendTo_Overwrite(d, k, v) ==
    LET t == Touch(d, k)
    IN  [t EXCEPT !.items[k] = <<v>>]

\* grouped[commit_type].append((scope, description))
AppendTo(d, k, v) ==
    LET t == Touch(d, k)
    IN  [t EXCEPT !.items[k] = Append(@, v)]

RECURSIVE GroupInto(_, _)
GroupInto(d, parsed) ==
    IF parsed = <<>> THEN d
    ELSE LET c == Head(parsed)
         IN  GroupInto(AppendTo(d, c[1], <<c[2], c[3]>>), Tail(parsed))

group_commits_by_type(parsed) == GroupInto(EmptyDict, parsed)

-----------------------------------------------------------------------------
(* generate_changelog *)

OrderOf(t) == COMMIT_TYPES[KeyOf(t)].order
TitleOf(t) == COMMIT_TYPES[KeyOf(t)].title

\* sorted(): stable insertion of x into an already sorted list
RECURSIVE InsertSorted(_, _)
InsertSorted(x, sorted) ==
    IF sorted = <<>> THEN <<x>>
    ELSE IF OrderOf(x) < OrderOf(Head(sorted))
         THEN <<x>> \o sorted
         ELSE <<Head(sorted)>> \o InsertSorted(x, Tail(sorted))

RECURSIVE SortedFrom(_, _)
SortedFrom(ks, acc) ==
    IF ks = <<>> THEN acc
    ELSE SortedFrom(Tail(ks), InsertSorted(Head(ks), acc))

\* the keys as the dict yields them, not sorted
SortedTypes_InsertionOrder(d) == d.keys

\* sorted(grouped_commits.keys(), key=lambda t: COMMIT_TYPES[t]['order'])
SortedTypes(d) == SortedFrom(d.keys, <<>>)

\* the heading without the newline after the title
HeadingLine_NoNewline(t) == <<"#","#","#"," ">> \o TitleOf(t)

HeadingLine(t) == <<"#","#","#"," ">> \o TitleOf(t) \o <<NL>>

BulletLine(scope, description) ==
    IF Truthy(scope)
    THEN <<"-"," ","*","*">> \o scope \o <<"*","*",":"," ">> \o description
    ELSE <<"-"," ">> \o description

\* the loop over commits started one element late
BulletLines_OffByOne(cs) ==
    IF cs = <<>> THEN <<>>
    ELSE [i \in 1..(Len(cs) - 1) |-> BulletLine(cs[i + 1][1], cs[i + 1][2])]

BulletLines(cs) == [i \in 1..Len(cs) |-> BulletLine(cs[i][1], cs[i][2])]

\* the body of the loop over sorted_types; st carries the dict (reading
\* grouped_commits[commit_type] goes through __getitem__) and the list lines
RECURSIVE RenderLoop(_, _)
RenderLoop(st, types) ==
    IF types = <<>> THEN st
    ELSE LET t == Head(types)
             d == Touch(st.dict, t)
             cs == d.items[t]
         IN  RenderLoop([dict |-> d,
                         lines |-> st.lines \o <<HeadingLine(t)>>
                                      \o BulletLines(cs) \o << <<>> >>],
                        Tail(types))

\* [dict |-> the mapping after the call, text |-> the returned string]
generate_changelog(d) ==
    LET st == RenderLoop([dict |-> d, lines |-> <<>>], SortedTypes(d))
    IN  [dict |-> st.dict, text |-> Join(st.lines, <<NL>>)]

-----------------------------------------------------------------------------
(* The repository as the two git commands see it.  Nothing in the script    *)
(* writes to the repository, so the second run of a command (the except    *)
(* branch of run_command) reads the same bytes as the first.  A command    *)
(* that fails writes its message to stderr and nothing to stdout.          *)

SampleLines ==
    { <<"f","e","a","t",":"," ","a","d","d">>,
      <<"f","i","x","(","a","u","t","h",")",":"," ","b","u","g">>,
      <<"M","e","r","g","e"," ","p","r"," ","#","1">>,
      <<"o","o","p","s"," ","n","o"," ","c","o","l","o","n">>,
      <<"F","I","X",":"," ","U",BAD,"p">>,
      <<"w","i","p",":"," ","x">>,
      <<"c","h","o","r","e",":"," ","b","u","m","p">>,
      << >> }

LogsUpTo(k) == UNION {[1..n -> SampleLines] : n \in 0..k}

\* stdout of "git describe --tags --abbrev=0 2>/dev/null || echo ''": the tag
\* and a newline, or the newline of echo when git fails
TagRuns ==
    { [failed |-> TRUE,  bytes |-> <<NL>>],
      [failed |-> FALSE, bytes |-> <<"v","1",NL>>],
      [failed |-> FALSE, bytes |-> <<"v",BAD,"2",NL>>] }

\* stdout of "git log ... --pretty=format:%s": the subjects separated by
\* newlines, or nothing when git fails
LogRuns ==
    {[failed |-> TRUE, bytes |-> <<>>]}
    \cup {[failed |-> FALSE, bytes |-> Join(ls, <<NL>>)] : ls \in LogsUpTo(MaxCommits)}

-----------------------------------------------------------------------------
(* run_command, get_last_tag, get_commits_since *)

\* the first subprocess.run of run_command, encoding=locale.getpreferredencoding():
\* the stripped stdout, or UnicodeDecodeError
RunPreferred(bytes) ==
    IF Decodable(bytes)
    THEN [raised |-> None, value |-> Strip(bytes)]
    ELSE [raised |-> <<"UnicodeDecodeError">>, value |-> <<>>]

\* run_command without its except clause
Catches_Nothing(e) == FALSE

\* the except clause of run_command
Catches(e) == e = <<"UnicodeDecodeError">>

\* the second subprocess.run of run_command, encoding='utf-8', errors='ignore'
RunUtf8Ignore(bytes) == Strip(DecodeIgnore(bytes))

\* return tag if tag else None
TagOrNone(tag) == IF Truthy(tag) THEN tag ELSE None

\* [line.strip() for line in output.split('\n') if line.strip()]
RECURSIVE StripNonBlank(_)
StripNonBlank(ls) ==
    IF ls = <<>> THEN <<>>
    ELSE IF Truthy(Strip(Head(ls)))
         THEN <<Strip(Head(ls))>> \o StripNonBlank(Tail(ls))
         ELSE StripNonBlank(Tail(ls))

LinesOf(output) == StripNonBlank(Split(output, NL))

DescribeCmd(encoding) ==
    [cmd |-> "git describe --tags --abbrev=0", since |-> None, encoding |-> encoding]

\* the command get_commits_since builds from since_ref
LogCmd(since_ref, encoding) ==
    [cmd |-> "git log --pretty=format:%s",
     since |-> IF Truthy(since_ref) THEN since_ref ELSE None,
     encoding |-> encoding]

-----------------------------------------------------------------------------
(* main *)

NoUpdates == <<"#","#"," ","{no updates}">>
NoCategorized == <<"#","#"," ","{no categorized updates}">>
FirstRelease == <<"#"," ","{first release}">>
SinceLine(tag) == <<"#"," ","{from}"," ">> \o tag \o <<" ","{until now}">>

\* print(x, file=f)
WriteLine(f, x) == f \o x \o <<NL>>

Init ==
    /\ repo \in [tag : TagRuns, log : LogRuns]
    /\ pc = "get_last_tag"
    /\ exc = None
    /\ queries = <<>>
    /\ last_tag = None
    /\ commits = <<>>
    /\ parsed_commits = <<>>
    /\ grouped = EmptyDict
    /\ changelog = <<>>
    /\ out = <<>>
    /\ err = <<>>
    /\ commit_msg = <<>>
    /\ parse_result = <<>>

\* get_last_tag: run_command, first attempt
GetLastTag ==
    /\ pc = "get_last_tag"
    /\ queries' = Append(queries, DescribeCmd("preferred"))
    /\ LET r == RunPreferred(repo.tag.bytes)
       IN  IF r.raised = None
           THEN /\ last_tag' = TagOrNone(r.value)
                /\ pc' = "status"
                /\ exc' = None
           ELSE /\ last_tag' = last_tag
                /\ pc' = "get_last_tag_except"
                /\ exc' = r.raised
    /\ UNCHANGED <<repo, commits, parsed_commits, grouped, changelog, out, err,
                   commit_msg, parse_result>>

\* get_last_tag: run_command, the exception of the first attempt
GetLastTagExcept ==
    /\ pc = "get_last_tag_except"
    /\ IF Catches(exc)
       THEN /\ queries' = Append(queries, DescribeCmd("utf-8"))
            /\ last_tag' = TagOrNone(RunUtf8Ignore(repo.tag.bytes))
            /\ pc' = "status"
            /\ exc' = None
       ELSE /\ pc' = "aborted"
            /\ UNCHANGED <<queries, last_tag, exc>>
    /\ UNCHANGED <<repo, commits, parsed_commits, grouped, changelog, out, err,
                   commit_msg, parse_result>>

\* the status line printed without file=sys.stderr
PrintStatus_ToStdout ==
    /\ pc = "status"
    /\ out' = IF Truthy(last_tag)
              THEN WriteLine(out, SinceLine(last_tag))
              ELSE WriteLine(out, FirstRelease)
    /\ pc' = "get_commits"
    /\ UNCHANGED <<repo, exc, queries, last_tag, commits, parsed_commits, grouped,
                   changelog, err, commit_msg, parse_result>>

\* the status line on sys.stderr
PrintStatus ==
    /\ pc = "status"
    /\ err' = IF Truthy(last_tag)
              THEN WriteLine(err, SinceLine(last_tag))
              ELSE WriteLine(err, FirstRelease)
    /\ pc' = "get_commits"
    /\ UNCHANGED <<repo, exc, queries, last_tag, commits, parsed_commits, grouped,
                   changelog, out, commit_msg, parse_result>>

\* get_commits_since(last_tag): run_command, first attempt
GetCommitsSince ==
    /\ pc = "get_commits"
    /\ queries' = Append(queries, LogCmd(last_tag, "preferred"))
    /\ LET r == RunPreferred(repo.log.bytes)
       IN  IF r.raised = None
           THEN /\ commits' = LinesOf(r.value)
                /\ pc' = "check_commits"
                /\ exc' = None
           ELSE /\ commits' = commits
                /\ pc' = "get_commits_except"
                /\ exc' = r.raised
    /\ UNCHANGED <<repo, last_tag, parsed_commits, grouped, changelog, out, err,
                   commit_msg, parse_result>>

\* get_commits_since: run_command, the exception of the first attempt
GetCommitsSinceExcept ==
    /\ pc = "get_commits_except"
    /\ IF Catches(exc)
       THEN /\ queries' = Append(queries, LogCmd(last_tag, "utf-8"))
            /\ commits' = LinesOf(RunUtf8Ignore(repo.log.bytes))
            /\ pc' = "check_commits"
            /\ exc' = None
       ELSE /\ pc' = "aborted"
            /\ UNCHANGED <<queries, commits, exc>>
    /\ UNCHANGED <<repo, last_tag, parsed_commits, grouped, changelog, out, err,
                   commit_msg, parse_result>>

\* if not commits: print placeholder; return
CheckCommits ==
    /\ pc = "check_commits"
    /\ IF ~Truthy(commits)
       THEN /\ out' = WriteLine(out, NoUpdates)
            /\ pc' = "done"
       ELSE /\ out' = out
            /\ pc' = "filter"
    /\ UNCHANGED <<repo, exc, queries, last_tag, commits, parsed_commits, grouped,
                   changelog, err, commit_msg, parse_result>>

\* parsed_commits = filter_commits(commits)
FilterCommits ==
    /\ pc = "filter"
    /\ parsed_commits' = filter_commits(commits)
    /\ pc' = "check_parsed"
    /\ UNCHANGED <<repo, exc, queries, last_tag, commits, grouped, changelog, out,
                   err, commit_msg, parse_result>>

\* the second placeholder printed without the return after it
CheckParsed_NoReturn ==
    /\ pc = "check_parsed"
    /\ out' = IF ~Truthy(parsed_commits) THEN WriteLine(out, NoCategorized) ELSE out
    /\ pc' = "group"
    /\ UNCHANGED <<repo, exc, queries, last_tag, commits, parsed_commits, grouped,
                   changelog, err, commit_msg, parse_result>>

\* if not parsed_commits: print placeholder; return
CheckParsed ==
    /\ pc = "check_parsed"
    /\ IF ~Truthy(parsed_commits)
       THEN /\ out' = WriteLine(out, NoCategorized)
            /\ pc' = "done"
       ELSE /\ out' = out
            /\ pc' = "group"
    /\ UNCHANGED <<repo, exc, queries, last_tag, commits, parsed_commits, grouped,
                   changelog, err, commit_msg, parse_result>>

\* grouped = group_commits_by_type(parsed_commits)
GroupCommits ==
    /\ pc = "group"
    /\ grouped' = group_commits_by_type(parsed_commits)
    /\ pc' = "render"
    /\ UNCHANGED <<repo, exc, queries, last_tag, commits, parsed_commits, changelog,
                   out, err, commit_msg, parse_result>>

\* changelog = generate_changelog(grouped)
GenerateChangelog ==
    /\ pc = "render"
    /\ LET r == generate_changelog(grouped)
       IN  /\ changelog' = r.text
           /\ grouped' = r.dict
    /\ pc' = "print"
    /\ UNCHANGED <<repo, exc, queries, last_tag, commits, parsed_commits, out, err,
                   commit_msg, parse_result>>

\* print(changelog)
PrintChangelog ==
    /\ pc = "print"
    /\ out' = WriteLine(out, changelog)
    /\ pc' = "done"
    /\ UNCHANGED <<repo, exc, queries, last_tag, commits, parsed_commits, grouped,
                   changelog, err, commit_msg, parse_result>>

Next ==
    \/ GetLastTag
    \/ GetLastTagExcept
    \/ PrintStatus
    \/ GetCommitsSince
    \/ GetCommitsSinceExcept
    \/ CheckCommits
    \/ FilterCommits
    \/ CheckParsed
    \/ GroupCommits
    \/ GenerateChangelog
    \/ PrintChangelog

Spec == Init /\ [][Next]_vars

-----------------------------------------------------------------------------
(* Stand-alone calls of parse_commit *)

Alphabet == {"A", "(", ")", ":", " "}

\* every string over Alphabet of at most k characters
StringsUpTo(k) == UNION {[1..n -> Alphabet] : n \in 0..k}

Idle ==
    /\ pc = "idle"
    /\ exc = None
    /\ queries = <<>>
    /\ last_tag = None
    /\ commits = <<>>
    /\ parsed_commits = <<>>
    /\ grouped = EmptyDict
    /\ changelog = <<>>
    /\ out = <<>>
    /\ err = <<>>
    /\ repo = [tag |-> [failed |-> FALSE, bytes |-> <<>>],
               log |-> [failed |-> FALSE, bytes |-> <<>>]]

InitParse ==
    /\ Idle
    /\ commit_msg \in StringsUpTo(MaxLen)
    /\ parse_result = <<>>

CallParseCommit ==
    /\ pc = "idle"
    /\ parse_result = <<>>
    /\ parse_result' = parse_commit(commit_msg)
    /\ UNCHANGED <<repo, pc, exc, queries, last_tag, commits, parsed_commits,
                   grouped, changelog, out, err, commit_msg>>

NextParse == CallParseCommit

SpecParse == InitParse /\ [][NextParse]_vars

-----------------------------------------------------------------------------
(* Vocabulary of the properties *)

\* the lines of a text in which every line ends with a newline
TextLines(text) ==
    LET ps == Split(text, NL) IN SubSeq(ps, 1, Len(ps) - 1)

\* the ten types in ascending priority: feat=1 ... chore=10
Priority ==
    <<TypeName.feat, TypeName.fix, TypeName.perf, TypeName.refactor, TypeName.docs,
      TypeName.style, TypeName.test, TypeName.build, TypeName.ci, TypeName.chore>>

PriorityOf(t) == CHOOSE i \in 1..Len(Priority) : Priority[i] = t

\* xs is exactly the subsequence of ys at the indices kept, in order
IsSubsequenceAt(xs, ys, kept) ==
    /\ Len(xs) = Cardinality(kept)
    /\ \A i \in kept : xs[Cardinality({j \in kept : j <= i})] = ys[i]

\* main has run to completion and printed a rendered changelog
Rendered == pc = "done" /\ commits # <<>> /\ parsed_commits # <<>>

-----------------------------------------------------------------------------
(* C1 *)

\* line = <type>[(<scope>)]: <description> with a type of n word characters,
\* a scope of m characters other than ")" (m = 0: no scope) and the description
\* the non-empty remainder of the line
HasForm(line, n, m) ==
    LET headLen == IF m = 0 THEN n + 2 ELSE n + m + 4
    IN  /\ n >= 1
        /\ Len(line) > headLen
        /\ LET type == SubSeq(line, 1, n)
               scope == IF m = 0 THEN <<>> ELSE SubSeq(line, n + 2, n + 1 + m)
               scopePart == IF m = 0 THEN <<>> ELSE <<"(">> \o scope \o <<")">>
               description == SubSeq(line, headLen + 1, Len(line))
           IN  /\ line = type \o scopePart \o <<":", " ">> \o description
               /\ Range(type) \subseteq WordChars
               /\ ")" \notin Range(scope)

ResultOfForm(line, n, m) ==
    LET k == IF m = 0 THEN n + 3 ELSE n + m + 5
    IN  <<Lower(SubSeq(line, 1, n)),
          IF m = 0 THEN <<>> ELSE SubSeq(line, n + 2, n + 1 + m),
          SubSeq(line, k, Len(line))>>

Forms(line) == {f \in (1..Len(line)) \X (0..Len(line)) : HasForm(line, f[1], f[2])}

\* C1: parse_commit returns (type lowercased, scope or the empty string,
\* description verbatim) for a line of the form <type>[(<scope>)]: <description>
\* and (absent, absent, the line unchanged) for every other line.
C1_ParseCommit ==
    parse_result # <<>> =>
        IF Forms(commit_msg) # {}
        THEN \A f \in Forms(commit_msg) :
                 parse_result = ResultOfForm(commit_msg, f[1], f[2])
        ELSE parse_result = <<None, None, commit_msg>>

\* a scoped line whose upper-case type came back lower-cased and whose
\* description came back as written
C1_Witness ==
    /\ commit_msg = <<"A","(","A",")",":"," ","A">>
    /\ parse_result = << <<"a">>, <<"A">>, <<"A">> >>

-----------------------------------------------------------------------------
(* C2 *)

IsMerge(line) == Len(line) >= 6 /\ SubSeq(line, 1, 6) = <<"M","e","r","g","e"," ">>

\* the parses of the fetched lines, and the indices of the lines that do not
\* begin with "Merge " and whose parsed type is one of the ten keys
Parses == [i \in 1..Len(commits) |-> parse_commit(commits[i])]

KeptIndices(parses) ==
    {i \in 1..Len(commits) :
        ~IsMerge(commits[i]) /\ parses[i][1] \in Range(Priority)}

\* filter_commits has just returned into parsed_commits
FilterHasRun == pc = "check_parsed"

\* C2: filter_commits returns exactly the parses of the lines that do not begin
\* with "Merge " and whose parsed type is one of the ten keys of COMMIT_TYPES,
\* in input order.
C2_FilterCommits ==
    FilterHasRun =>
        LET parses == Parses
        IN  IsSubsequenceAt(parsed_commits, parses, KeptIndices(parses))

\* a log with a merge line, a line of unknown type and a kept line
C2_Witness ==
    /\ pc = "check_parsed"
    /\ \E i \in 1..Len(commits) : IsMerge(commits[i])
    /\ \E i \in 1..Len(commits) :
           ~IsMerge(commits[i]) /\ parse_commit(commits[i])[1] = <<"w","i","p">>
    /\ Len(parsed_commits) = 1

-----------------------------------------------------------------------------
(* C3 *)

IsHeading(line) == Len(line) >= 4 /\ SubSeq(line, 1, 4) = <<"#","#","#"," ">>

\* the type whose display title the heading line carries
HeadingType(line) ==
    CHOOSE t \in Range(Priority) :
        line = <<"#","#","#"," ">> \o COMMIT_TYPES[KeyOf(t)].title

Headings(text) == SelectSeq(TextLines(text), IsHeading)

\* C3: the headings come out in strictly ascending priority, one per type of
\* the mapping, whatever the order in which the types were first seen.
C3_PriorityOrder ==
    Rendered =>
        LET hs == Headings(out)
        IN  /\ \A i \in 1..Len(hs) : \A j \in 1..Len(hs) :
                   i < j => PriorityOf(HeadingType(hs[i])) < PriorityOf(HeadingType(hs[j]))
            /\ {HeadingType(hs[i]) : i \in 1..Len(hs)} = Range(grouped.keys)

\* a fix commit logged before a feat commit, rendered feat first
C3_Witness ==
    /\ Rendered
    /\ grouped.keys = <<TypeName.fix, TypeName.feat>>
    /\ Len(Headings(out)) = 2
    /\ HeadingType(Headings(out)[1]) = TypeName.feat

-----------------------------------------------------------------------------
(* C4 *)

ClaimedBullet(pair) ==
    IF pair[1] # <<>>
    THEN <<"-"," ","*","*">> \o pair[1] \o <<"*","*",":"," ">> \o pair[2]
    ELSE <<"-"," ">> \o pair[2]

\* the lines of one bucket: the heading, a blank line if blankAfterHeading,
\* the bullets, a blank line
BucketLines(t, blankAfterHeading) ==
    LET cs == grouped.items[t]
    IN  << <<"#","#","#"," ">> \o COMMIT_TYPES[KeyOf(t)].title >>
        \o (IF blankAfterHeading THEN << <<>> >> ELSE <<>>)
        \o [i \in 1..Len(cs) |-> ClaimedBullet(cs[i])]
        \o << <<>> >>

\* the buckets of grouped laid out from priority i on
RECURSIVE LayoutFrom(_, _)
LayoutFrom(i, blankAfterHeading) ==
    IF i > Len(Priority) THEN <<>>
    ELSE (IF Priority[i] \in Range(grouped.keys)
          THEN BucketLines(Priority[i], blankAfterHeading)
          ELSE <<>>)
         \o LayoutFrom(i + 1, blankAfterHeading)

\* C4 as claimed: each bucket is its heading line, its bullet lines and one
\* blank line, and the output holds no other line.
C4_AsClaimed == Rendered => TextLines(out) = LayoutFrom(1, FALSE)

\* C4: each bucket is its heading line, one blank line, one bullet line per
\* commit (with the scope in bold when it is non-empty) and one blank line,
\* and the output holds no other line.
C4_BucketLayout == Rendered => TextLines(out) = LayoutFrom(1, TRUE)

\* two buckets, one of them with a scoped and an unscoped bullet
C4_Witness ==
    /\ Rendered
    /\ Len(grouped.keys) = 2
    /\ \E k \in Range(grouped.keys) :
           /\ Len(grouped.items[k]) = 2
           /\ grouped.items[k][1][1] # <<>>
           /\ grouped.items[k][2][1] = <<>>

-----------------------------------------------------------------------------
(* C5 *)

\* C5: stdout is the "no updates" placeholder iff no commit was fetched, the
\* "no categorized updates" placeholder iff commits were fetched and
\* filter_commits kept none, and the rendered changelog otherwise; nothing is
\* written to stdout before the run's last step.
C5_Outcome ==
    /\ out # <<>> => pc = "done"
    /\ pc = "done" =>
           LET kept == filter_commits(commits)
           IN  /\ out = NoUpdates \o <<NL>> <=> commits = <<>>
               /\ out = NoCategorized \o <<NL>> <=> (commits # <<>> /\ kept = <<>>)
               /\ (commits # <<>> /\ kept # <<>>) =>
                      out = generate_changelog(group_commits_by_type(kept)).text \o <<NL>>

\* the only commit is "oops no colon" and the run ended with the second placeholder
C5_Witness ==
    /\ pc = "done"
    /\ commits = << <<"o","o","p","s"," ","n","o"," ","c","o","l","o","n">> >>
    /\ out = NoCategorized \o <<NL>>

-----------------------------------------------------------------------------
(* C6 *)

EncodingFails(bytes) == BAD \in Range(bytes)
WithoutBad(bytes) == SelectSeq(bytes, LAMBDA c : c # BAD)

-----------------------------------------------------------------------------
(* C7 *)

IsDescribe(q) == q.cmd = "git describe --tags --abbrev=0"
IsLog(q) == q.cmd = "git log --pretty=format:%s"

Count(qs, Test(_)) == Cardinality({i \in 1..Len(qs) : Test(qs[i])})

-----------------------------------------------------------------------------
(* C8 *)

StatusPrinted == pc \notin {"get_last_tag", "get_last_tag_except", "status", "aborted"}

\* C8: a run writes exactly one line to stderr and none of it to stdout: the
\* line names the tag when there is one and says "first release" iff there is
\* none.
C8_StatusLine ==
    /\ pc \in {"get_last_tag", "get_last_tag_except", "status"} => err = <<>>
    /\ StatusPrinted =>
           /\ Len(TextLines(err)) = 1
           /\ TextLines(err)[1] = FirstRelease <=> last_tag = None
           /\ last_tag # None =>
                  TextLines(err)[1] = <<"#"," ","{from}"," ">> \o last_tag \o <<" ","{until now}">>
           /\ last_tag # <<>>
           /\ out # <<>> => TextLines(err)[1] \notin Range(TextLines(out))

\* "chore: bump" with no tag: first release, one chore bucket
C8_Witness ==
    /\ Rendered
    /\ last_tag = None
    /\ err = FirstRelease \o <<NL>>
    /\ grouped.keys = <<TypeName.chore>>

-----------------------------------------------------------------------------
(* C9 *)

\* C9: the keys of the mapping are exactly the types of the filtered list, no
\* bucket is empty, the bucket of a type is the (scope, description) pairs of
\* its commits in input order, and rendering leaves the mapping as it was.
C9_Grouping ==
    (pc \in {"render", "print"} \/ Rendered) =>
        LET n == Len(parsed_commits)
            pairs == [i \in 1..n |-> <<parsed_commits[i][2], parsed_commits[i][3]>>]
        IN  /\ Range(grouped.keys) = {parsed_commits[i][1] : i \in 1..n}
            /\ DOMAIN grouped.items = Range(grouped.keys)
            /\ Cardinality(Range(grouped.keys)) = Len(grouped.keys)
            /\ \A k \in Range(grouped.keys) :
                   /\ grouped.items[k] # <<>>
                   /\ IsSubsequenceAt(grouped.items[k], pairs,
                                      {i \in 1..n : parsed_commits[i][1] = k})

\* after rendering: "fix(auth): bug" and "FIX: Up" share the fix bucket, in
\* that order
C9_Witness ==
    /\ pc = "print"
    /\ TypeName.fix \in Range(grouped.keys)
    /\ grouped.items[TypeName.fix] =
           << << <<"a","u","t","h">>, <<"b","u","g">> >>, << <<>>, <<"U","p">> >> >>

-----------------------------------------------------------------------------
(* C10 *)

IsBullet(line) == Len(line) >= 2 /\ SubSeq(line, 1, 2) = <<"-"," ">>

\* the bullet lines of the output, each with the type of the heading above it
RECURSIVE BulletsUnder(_, _)
BulletsUnder(lines, type) ==
    IF lines = <<>> THEN <<>>
    ELSE IF IsHeading(Head(lines))
         THEN BulletsUnder(Tail(lines), HeadingType(Head(lines)))
    ELSE IF IsBullet(Head(lines))
         THEN << <<type, Head(lines)>> >> \o BulletsUnder(Tail(lines), type)
    ELSE BulletsUnder(Tail(lines), type)

Occurrences(xs, x) == Cardinality({i \in 1..Len(xs) : xs[i] = x})

\* C10: the bullets of a rendered changelog are the commits kept by the
\* filter, each once and under the heading of its own type.
C10_Conservation ==
    Rendered =>
        LET kept == filter_commits(commits)
            bullets == BulletsUnder(TextLines(out), None)
            Wanted(i) == <<kept[i][1], ClaimedBullet(<<kept[i][2], kept[i][3]>>)>>
        IN  /\ Len(bullets) = Len(kept)
            /\ \A i \in 1..Len(kept) :
                   Occurrences(bullets, Wanted(i)) =
                       Cardinality({j \in 1..Len(kept) : Wanted(j) = Wanted(i)})
            /\ \A i \in 1..Len(bullets) : \E j \in 1..Len(kept) : bullets[i] = Wanted(j)

\* three lines fetched, one dropped, the other two under one heading
C10_Witness ==
    /\ Rendered
    /\ Len(commits) = 3
    /\ Len(parsed_commits) = 2
    /\ Len(grouped.keys) = 1
    /\ Len(BulletsUnder(TextLines(out), None)) = 2

====
